---------------------------- MODULE Spec2Model ----------------------------
(***************************************************************************)
(* SurveySense / ML-Insight: the survey normalizer (load_survey_data in    *)
(* app.py, extract_records in Dashboard.py), the column detection the      *)
(* views apply, and the control flow of the views of both scripts.         *)
(*                                                                         *)
(* A decoded JSON value is a tagged record; a JSON object is a Python dict *)
(* and keeps its insertion order, so it is a sequence of <<key, value>>    *)
(* pairs with distinct keys.  A Python call either returns or raises: its  *)
(* result is [exc |-> "none", val |-> v] or [exc |-> <exception name>].    *)
(* pandas is modelled as pandas 1.x/2.x behaves (strings are object-typed).*)
(***************************************************************************)
EXTENDS Integers, Sequences, FiniteSets, TLC

VARIABLES
    doc,            \* the decoded JSON document the script reads
    prog,           \* which script runs: "app" (app.py) or "notebook" (Dashboard.py)
    st,             \* Dashboard.py: whether `import streamlit` succeeded
    pc,             \* the script's position
    menu,           \* app.py: the view the sidebar radio selects
    src,            \* the array the normalizer took the records from
    df,             \* the table
    exc,            \* the exception that ended the run, "none" if none did
    notices,        \* the inline notices the run has shown
    time_col, date_col, text_col, text_cols, sentiment_col, mcq_cols,
    bound           \* the names the run has bound so far

vars == <<doc, prog, st, pc, menu, src, df, exc, notices, time_col, date_col,
          text_col, text_cols, sentiment_col, mcq_cols, bound>>

(***************************************************************************)
(* JSON values                                                             *)
(***************************************************************************)
Null == [t |-> "null"]
Str(s) == [t |-> "str", s |-> s]
Num(n) == [t |-> "num", n |-> n]
Bool(b) == [t |-> "bool", b |-> b]
Obj(kv) == [t |-> "obj", kv |-> kv]
Arr(a) == [t |-> "arr", a |-> a]

IsDict(v) == v.t = "obj"
IsList(v) == v.t = "arr"
IsNull(v) == v.t = "null"

Ok(v) == [exc |-> "none", val |-> v]
Raise(e) == [exc |-> e]

\* key in d
HasKey(d, k) == \E i \in DOMAIN d.kv : d.kv[i][1] = k
\* d[key], for a key that is present
Item(d, k) == d.kv[CHOOSE i \in DOMAIN d.kv : d.kv[i][1] = k][2]
\* d.get(key): None when the key is absent
DictGet(d, k) == IF HasKey(d, k) THEN Item(d, k) ELSE Null
\* list(d.values()), in the dict's enumeration order
DictValues(d) == [i \in DOMAIN d.kv |-> d.kv[i][2]]
\* d[key] = value on the pair sequence of a dict: an existing key keeps its
\* place and takes the new value, a new key goes last
DictSet(kv, k, v) ==
    IF \E i \in DOMAIN kv : kv[i][1] = k
    THEN [i \in DOMAIN kv |-> IF kv[i][1] = k THEN <<k, v>> ELSE kv[i]]
    ELSE Append(kv, <<k, v>>)

(***************************************************************************)
(* pandas.DataFrame: the ordered columns, the rows (each a function from   *)
(* column to cell, a missing cell being null) and each column's dtype.     *)
(***************************************************************************)
\* the column label pandas gives a list of scalars: the integer 0, not a string
IntCol == "<int 0>"

EmptyDF == [columns |-> <<>>, rows |-> <<>>, dtype |-> <<>>]
NoDF == [columns |-> <<>>, rows |-> <<>>, dtype |-> <<>>, unset |-> TRUE]

RECURSIVE UnionKeys(_, _)
\* the column index of a list of dicts: every key, in order of first appearance
UnionKeys(dicts, acc) ==
    IF dicts = <<>> THEN acc
    ELSE LET ks == [i \in DOMAIN Head(dicts).kv |-> Head(dicts).kv[i][1]]
             new == SelectSeq(ks, LAMBDA k : \A j \in DOMAIN acc : acc[j] # k)
         IN UnionKeys(Tail(dicts), acc \o new)

SeqToSet(s) == {s[i] : i \in DOMAIN s}

\* the dtype pandas infers for one column's cells
InferDtype(cells) ==
    LET kinds == {cells[i].t : i \in {j \in DOMAIN cells : ~IsNull(cells[j])}}
        nulls == \E i \in DOMAIN cells : IsNull(cells[i])
    IN IF kinds = {"num"} THEN "number"
       ELSE IF kinds = {"bool"} /\ ~nulls THEN "bool"
       ELSE "object"

MakeDF(cols, rows) ==
    [columns |-> cols,
     rows |-> rows,
     dtype |-> [c \in SeqToSet(cols) |->
                  InferDtype([i \in DOMAIN rows |-> rows[i][c]])]]

\* pd.DataFrame(records) for the values the normalizers hand it
DataFrame(data) ==
    CASE data.t = "null" -> Ok(EmptyDF)
      [] data.t \in {"str", "num", "bool"} -> Raise("ValueError")
      [] data.t = "obj" /\ data.kv = <<>> -> Ok(EmptyDF)
      [] data.t = "obj" /\ data.kv # <<>>
           /\ \A i \in DOMAIN data.kv : data.kv[i][2].t \notin {"obj", "arr"}
           -> Raise("ValueError")
      [] data.t = "arr" /\ data.a = <<>> -> Ok(EmptyDF)
      [] data.t = "arr" /\ data.a # <<>> /\ IsDict(data.a[1]) ->
           IF \A i \in DOMAIN data.a : IsDict(data.a[i])
           THEN LET cols == UnionKeys(data.a, <<>>)
                IN Ok(MakeDF(cols,
                        [i \in DOMAIN data.a |->
                           [c \in SeqToSet(cols) |-> DictGet(data.a[i], c)]]))
           ELSE Raise("AttributeError")
      [] data.t = "arr" /\ data.a # <<>> /\ data.a[1].t \notin {"obj", "arr"} ->
           Ok(MakeDF(<<IntCol>>,
                [i \in DOMAIN data.a |-> [c \in {IntCol} |-> data.a[i]]]))

(***************************************************************************)
(* The normalizers                                                         *)
(***************************************************************************)
MetaFields == <<"response_id", "user_id", "user_name", "submitted_at",
                "completion_time">>

ContainerKeys == <<"responses", "data", "results", "answers">>

\* what a for loop or a comprehension over v iterates: a list gives its
\* entries, a dict its keys, a string its characters (each a string); None,
\* a number, a boolean are not iterable
Iterate(v) ==
    CASE v.t = "arr" -> Ok(v.a)
      [] v.t = "obj" -> Ok([i \in DOMAIN v.kv |-> Str(v.kv[i][1])])
      [] v.t = "str" -> Ok([i \in 1..Len(v.s) |-> Str("c")])
      [] OTHER -> Raise("TypeError")

\* q[field] for q in data['questions']
Subscript(q, field) ==
    IF IsDict(q) THEN (IF HasKey(q, field) THEN Ok(Item(q, field)) ELSE Raise("KeyError"))
    ELSE Raise("TypeError")

RECURSIVE BuildDict(_, _, _)
\* {q['question_id']: q[field] for q in questions}: a later entry with the
\* same id replaces the earlier value; the first failing q[...] raises
BuildDict(qs, field, acc) ==
    IF qs = <<>> THEN Ok(acc)
    ELSE LET k == Subscript(Head(qs), "question_id")
             v == Subscript(Head(qs), field)
         IN IF k.exc # "none" THEN k
            ELSE IF v.exc # "none" THEN v
            ELSE BuildDict(Tail(qs), field, DictSet(acc, k.val, v.val))

\* dict.get(qid, qid) on the id-to-text pairs; ids are compared as values
TextOf(q2t, qid) ==
    IF \E i \in DOMAIN q2t : q2t[i][1] = Str(qid)
    THEN q2t[CHOOSE i \in DOMAIN q2t : q2t[i][1] = Str(qid)][2].s
    ELSE qid

RECURSIVE FillRow(_, _, _)
\* for qid, answer in resp['responses'].items(): row[col_name] = answer
FillRow(row, items, q2t) ==
    IF items = <<>> THEN row
    ELSE FillRow(DictSet(row, TextOf(q2t, Head(items)[1]), Head(items)[2]),
                 Tail(items), q2t)

\* one pass of the loop body over resp
RowOf(resp, q2t) ==
    IF ~IsDict(resp) THEN Raise("AttributeError")
    ELSE IF ~HasKey(resp, "responses") THEN Raise("KeyError")
    ELSE IF ~IsDict(Item(resp, "responses")) THEN Raise("AttributeError")
    ELSE Ok(Obj(FillRow([i \in DOMAIN MetaFields |->
                            <<MetaFields[i], DictGet(resp, MetaFields[i])>>],
                        Item(resp, "responses").kv, q2t)))

RECURSIVE BuildRecords(_, _, _)
BuildRecords(resps, q2t, acc) ==
    IF resps = <<>> THEN Ok(acc)
    ELSE LET r == RowOf(Head(resps), q2t)
         IN IF r.exc # "none" THEN r
            ELSE BuildRecords(Tail(resps), q2t, Append(acc, r.val))

\* app.py's fallback taking the keys of an object without a container key
\* where extract_records takes its values
app_fallback_keys(data) ==
    IF IsDict(data)
    THEN LET present == SelectSeq(ContainerKeys, LAMBDA k : HasKey(data, k))
         IN IF present # <<>> THEN Item(data, Head(present))
            ELSE Arr([i \in DOMAIN data.kv |-> Str(data.kv[i][1])])
    ELSE IF IsList(data) THEN data
    ELSE Arr(<<>>)

\* app.py's fallback with equal entries of a bare array merged
app_fallback_dedup(data) ==
    IF IsDict(data)
    THEN LET present == SelectSeq(ContainerKeys, LAMBDA k : HasKey(data, k))
         IN IF present # <<>> THEN Item(data, Head(present))
            ELSE Arr(DictValues(data))
    ELSE IF IsList(data)
         THEN LET kept == SelectSeq([i \in DOMAIN data.a |-> <<i, data.a[i]>>],
                         LAMBDA e : \A j \in 1..(e[1] - 1) : data.a[j] # e[2])
              IN Arr([i \in DOMAIN kept |-> kept[i][2]])
         ELSE Arr(<<>>)

\* app.py, "Fallback for other structures": the array the records come from
app_fallback_records(data) ==
    IF IsDict(data)
    THEN LET present == SelectSeq(ContainerKeys, LAMBDA k : HasKey(data, k))
         IN IF present # <<>> THEN Item(data, Head(present))
            ELSE Arr(DictValues(data))
    ELSE IF IsList(data) THEN data
    ELSE Arr(<<>>)

\* extract_records probing the container keys in the reverse order
nb_records_lastkey(survey_data) ==
    IF IsDict(survey_data)
    THEN LET present == SelectSeq(ContainerKeys, LAMBDA k : HasKey(survey_data, k))
         IN IF present # <<>> THEN Item(survey_data, present[Len(present)])
            ELSE Arr(DictValues(survey_data))
    ELSE IF IsList(survey_data) THEN survey_data
    ELSE Arr(<<>>)

\* extract_records handing a document that is neither object nor array on
nb_records_noelse(survey_data) ==
    IF IsDict(survey_data)
    THEN LET present == SelectSeq(ContainerKeys, LAMBDA k : HasKey(survey_data, k))
         IN IF present # <<>> THEN Item(survey_data, Head(present))
            ELSE Arr(DictValues(survey_data))
    ELSE survey_data

\* Dashboard.py, extract_records: the array the records come from
nb_records(survey_data) ==
    IF IsDict(survey_data)
    THEN LET present == SelectSeq(ContainerKeys, LAMBDA k : HasKey(survey_data, k))
         IN IF present # <<>> THEN Item(survey_data, Head(present))
            ELSE Arr(DictValues(survey_data))
    ELSE IF IsList(survey_data) THEN survey_data
    ELSE Arr(<<>>)

\* the result of a normalizer: the exception it raised if any, the array it
\* took the records from, and the table
Normalized(t, records) ==
    [exc |-> t.exc, src |-> records, val |-> IF t.exc = "none" THEN t.val ELSE NoDF]

\* Dashboard.py
extract_records(survey_data) ==
    LET records == nb_records(survey_data)
    IN Normalized(DataFrame(records), records)

IsShapeA(data) ==
    IsDict(data) /\ HasKey(data, "responses") /\ HasKey(data, "questions")

\* app.py
load_survey_data(data) ==
    IF IsShapeA(data)
    THEN LET qs == Iterate(Item(data, "questions"))
             q2t == IF qs.exc = "none"
                    THEN BuildDict(qs.val, "question_text", <<>>) ELSE qs
             q2y == IF q2t.exc = "none"
                    THEN BuildDict(qs.val, "question_type", <<>>) ELSE q2t
             rs == IF q2y.exc = "none" THEN Iterate(Item(data, "responses")) ELSE q2y
             recs == IF rs.exc = "none"
                     THEN BuildRecords(rs.val, q2t.val, <<>>) ELSE rs
             t == IF recs.exc = "none" THEN DataFrame(Arr(recs.val)) ELSE recs
         IN Normalized(t, Item(data, "responses"))
    ELSE LET records == app_fallback_records(data)
         IN Normalized(DataFrame(records), records)

(***************************************************************************)
(* Column names.  TLC cannot take a string apart, so Chars gives the       *)
(* characters of every column name and pattern of the model; lower() and   *)
(* the `in` test of strings work on the characters.                        *)
(***************************************************************************)
Chars(s) ==
    CASE s = "Completion Time (seconds)" ->
           <<"C", "o", "m", "p", "l", "e", "t", "i", "o", "n", " ", "T",
             "i", "m", "e", " ", "(", "s", "e", "c", "o", "n", "d", "s",
             ")">>
      [] s = "completion_time" ->
           <<"c", "o", "m", "p", "l", "e", "t", "i", "o", "n", "_", "t",
             "i", "m", "e">>
      [] s = "Time to Complete" ->
           <<"T", "i", "m", "e", " ", "t", "o", " ", "C", "o", "m", "p",
             "l", "e", "t", "e">>
      [] s = "Duration Timestamp" ->
           <<"D", "u", "r", "a", "t", "i", "o", "n", " ", "T", "i", "m",
             "e", "s", "t", "a", "m", "p">>
      [] s = "Submitted At" ->
           <<"S", "u", "b", "m", "i", "t", "t", "e", "d", " ", "A", "t">>
      [] s = "submitted_at" ->
           <<"s", "u", "b", "m", "i", "t", "t", "e", "d", "_", "a", "t">>
      [] s = "Response Date" ->
           <<"R", "e", "s", "p", "o", "n", "s", "e", " ", "D", "a", "t",
             "e">>
      [] s = "Feedback Date" ->
           <<"F", "e", "e", "d", "b", "a", "c", "k", " ", "D", "a", "t",
             "e">>
      [] s = "Additional Comments" ->
           <<"A", "d", "d", "i", "t", "i", "o", "n", "a", "l", " ", "C",
             "o", "m", "m", "e", "n", "t", "s">>
      [] s = "Sentiment" ->
           <<"S", "e", "n", "t", "i", "m", "e", "n", "t">>
      [] s = "Comment Sentiment" ->
           <<"C", "o", "m", "m", "e", "n", "t", " ", "S", "e", "n", "t",
             "i", "m", "e", "n", "t">>
      [] s = "Did you like it?" ->
           <<"D", "i", "d", " ", "y", "o", "u", " ", "l", "i", "k", "e",
             " ", "i", "t", "?">>
      [] s = "How would you rate the overall quality of the AI/ML session?" ->
           <<"H", "o", "w", " ", "w", "o", "u", "l", "d", " ", "y", "o",
             "u", " ", "r", "a", "t", "e", " ", "t", "h", "e", " ", "o",
             "v", "e", "r", "a", "l", "l", " ", "q", "u", "a", "l", "i",
             "t", "y", " ", "o", "f", " ", "t", "h", "e", " ", "A", "I",
             "/", "M", "L", " ", "s", "e", "s", "s", "i", "o", "n", "?">>
      [] s = "response_id" ->
           <<"r", "e", "s", "p", "o", "n", "s", "e", "_", "i", "d">>
      [] s = "user_id" ->
           <<"u", "s", "e", "r", "_", "i", "d">>
      [] s = "user_name" ->
           <<"u", "s", "e", "r", "_", "n", "a", "m", "e">>
      [] s = "q1" ->
           <<"q", "1">>
      [] s = "q2" ->
           <<"q", "2">>
      [] s = "name" ->
           <<"n", "a", "m", "e">>
      [] s = "score" ->
           <<"s", "c", "o", "r", "e">>
      [] s = "city" ->
           <<"c", "i", "t", "y">>
      [] s = "responses" ->
           <<"r", "e", "s", "p", "o", "n", "s", "e", "s">>
      [] s = "time" ->
           <<"t", "i", "m", "e">>
      [] s = "complete" ->
           <<"c", "o", "m", "p", "l", "e", "t", "e">>
      [] s = "duration" ->
           <<"d", "u", "r", "a", "t", "i", "o", "n">>
      [] s = "date" ->
           <<"d", "a", "t", "e">>
      [] s = "timestamp" ->
           <<"t", "i", "m", "e", "s", "t", "a", "m", "p">>
      [] s = "text" ->
           <<"t", "e", "x", "t">>
      [] s = "feedback" ->
           <<"f", "e", "e", "d", "b", "a", "c", "k">>
      [] s = "comment" ->
           <<"c", "o", "m", "m", "e", "n", "t">>
      [] s = "sentiment" ->
           <<"s", "e", "n", "t", "i", "m", "e", "n", "t">>

\* str.lower() on one character
LowerChar(c) ==
    CASE c = "A" -> "a"
      [] c = "B" -> "b"
      [] c = "C" -> "c"
      [] c = "D" -> "d"
      [] c = "E" -> "e"
      [] c = "F" -> "f"
      [] c = "G" -> "g"
      [] c = "H" -> "h"
      [] c = "I" -> "i"
      [] c = "J" -> "j"
      [] c = "K" -> "k"
      [] c = "L" -> "l"
      [] c = "M" -> "m"
      [] c = "N" -> "n"
      [] c = "O" -> "o"
      [] c = "P" -> "p"
      [] c = "Q" -> "q"
      [] c = "R" -> "r"
      [] c = "S" -> "s"
      [] c = "T" -> "t"
      [] c = "U" -> "u"
      [] c = "V" -> "v"
      [] c = "W" -> "w"
      [] c = "X" -> "x"
      [] c = "Y" -> "y"
      [] c = "Z" -> "z"
      [] OTHER -> c

\* col.lower()
Lower(cs) == [i \in DOMAIN cs |-> LowerChar(cs[i])]

\* pat in s, on character sequences
Contains(s, pat) ==
    \E k \in 0..(Len(s) - Len(pat)) : \A i \in 1..Len(pat) : s[k + i] = pat[i]

\* 'pat' in col.lower()
InLower(pat, col) == Contains(Lower(Chars(col)), Chars(pat))

\* app.py line 88, Dashboard.py line 74
IsTimeName(col) ==
    InLower("time", col) /\ (InLower("complete", col) \/ InLower("duration", col))

\* app.py line 90, Dashboard.py lines 94 and 188
IsDateName(col) == InLower("date", col) \/ InLower("timestamp", col)

\* app.py lines 167, 227, 305, Dashboard.py line 159
IsTextName(col) ==
    InLower("text", col) \/ InLower("feedback", col) \/ InLower("comment", col)

\* Dashboard.py line 186
IsSentimentName(col) == InLower("sentiment", col)

(***************************************************************************)
(* The documents the normalizers are run on                                *)
(***************************************************************************)
MaxResponses == 2
MaxRecords == 3

SeqsUpTo(S, n) == UNION {[1..k -> S] : k \in 0..n}

Question(id, text) ==
    Obj(<< <<"question_id", Str(id)>>, <<"question_text", Str(text)>>,
           <<"question_type", Str("mcq")>> >>)

QuestionEntries ==
    { Question("q1", "Did you like it?"),
      Question("q2", "Did you like it?"),
      Question("q2", "Additional Comments"),
      Question("q1", "user_id"),
      Obj(<< <<"question_text", Str("Did you like it?")>>,
             <<"question_type", Str("mcq")>> >>),
      Obj(<< <<"question_id", Str("q1")>>,
             <<"question_text", Str("Did you like it?")>> >>) }

QuestionValues ==
    {Arr(<<>>)} \cup {Arr(<<a>>) : a \in QuestionEntries}
    \cup {Arr(<<a, b>>) : a \in QuestionEntries, b \in QuestionEntries}
    \cup {Null, Str("q1")}

FullMeta ==
    << <<"response_id", Num(7)>>, <<"user_id", Str("u1")>>,
       <<"user_name", Str("Ann")>>, <<"submitted_at", Str("2024-01-05")>>,
       <<"completion_time", Num(30)>> >>

NestedAnswers ==
    { << <<"q1", Str("Yes")>> >>,
      << <<"q1", Str("No")>>, <<"q2", Str("Great session")>> >>,
      << <<"user_id", Str("Yes")>> >> }

ResponseEntries ==
    {Obj(m \o << <<"responses", Obj(n)>> >>) :
        m \in {<<>>, FullMeta, << <<"response_id", Num(8)>> >>}, n \in NestedAnswers}
    \cup { Obj(FullMeta),
           Obj(<< <<"response_id", Num(9)>>, <<"responses", Arr(<<Str("Yes")>>)>> >>),
           Str("Yes") }

ShapeADocs ==
    {Obj(<< <<"questions", q>>, <<"responses", Arr(r)>> >>) :
        q \in QuestionValues, r \in SeqsUpTo(ResponseEntries, MaxResponses)}
    \cup {Obj(<< <<"questions", Arr(<<>>)>>, <<"responses", r>> >>) :
            r \in {Null, Str(""), Obj(<<>>)}}

RecordA == Obj(<< <<"name", Str("Ann")>>, <<"score", Num(4)>> >>)
RecordB == Obj(<< <<"score", Num(5)>>, <<"city", Str("Oslo")>> >>)

\* the value under a container key: arrays of records, and values that are
\* not arrays
ContainerValues ==
    {Arr(<<RecordA>>), Arr(<<RecordB, RecordA>>), Str("n/a"),
     Obj(<< <<"count", Num(2)>> >>)}

\* objects holding any of the container keys, enumerated in the reverse of
\* the preference order, and another key
KeyedDocs ==
    LET opt == ContainerValues \cup {Null, [t |-> "absent"]}
        pair(k, v) == IF v.t = "absent" THEN <<>> ELSE << <<k, v>> >>
    IN {Obj(pair("meta", m) \o pair("answers", a) \o pair("results", r)
            \o pair("data", d) \o pair("responses", s)) :
          m \in {RecordB, [t |-> "absent"]},
          a \in opt, r \in opt, d \in opt, s \in opt}

ListDocs ==
    {Arr(a) : a \in SeqsUpTo({RecordA, RecordB, Obj(<<>>)}, MaxRecords)}
    \cup {Arr(<<Num(5), Num(6)>>), Arr(<<RecordA, Str("x")>>),
          Arr(<<Str("x"), RecordA>>)}

ScalarDocs == {Null, Num(5), Str("survey"), Bool(TRUE)}

NormDocs == ShapeADocs \cup KeyedDocs \cup ListDocs \cup ScalarDocs

(***************************************************************************)
(* The two scripts.  app.py is run from the top on every interaction:      *)
(* load_survey_data, then the view the menu selects.  Dashboard.py runs    *)
(* its cells in order.  An exception nothing catches ends the run.         *)
(***************************************************************************)
NoCol == "<None>"
Menus == {"Overview", "MCQ Analytics", "Text Feedback (NLP)",
          "Predictive Modeling", "Dashboard Summary"}

Blank ==
    /\ src = Null /\ df = NoDF /\ exc = "none" /\ notices = {}
    /\ time_col = NoCol /\ date_col = NoCol /\ text_col = NoCol
    /\ text_cols = <<>> /\ sentiment_col = NoCol /\ mcq_cols = <<>> /\ bound = {}

InitNorm ==
    /\ doc \in NormDocs
    /\ prog \in {"app", "notebook"}
    /\ st = TRUE
    /\ pc = "load"
    /\ menu = "Overview"
    /\ Blank

\* app.py line 68: df = load_survey_data(uploaded_file)
AppLoad ==
    /\ prog = "app" /\ pc = "load"
    /\ LET r == load_survey_data(doc)
       IN /\ df' = r.val /\ src' = r.src /\ exc' = r.exc
          /\ pc' = IF r.exc = "none" THEN "view" ELSE "done"
    /\ UNCHANGED <<doc, prog, st, menu, notices, time_col, date_col, text_col,
                   text_cols, sentiment_col, mcq_cols, bound>>

\* Dashboard.py line 52: df = extract_records(survey_data)
NbExtract ==
    /\ prog = "notebook" /\ pc = "load"
    /\ LET r == extract_records(doc)
       IN /\ df' = r.val /\ src' = r.src /\ exc' = r.exc
          /\ pc' = IF r.exc = "none" THEN "summary" ELSE "done"
    /\ UNCHANGED <<doc, prog, st, menu, notices, time_col, date_col, text_col,
                   text_cols, sentiment_col, mcq_cols, bound>>

NextNorm == AppLoad \/ NbExtract

SpecNorm == InitNorm /\ [][NextNorm]_vars

(***************************************************************************)
(* Columns of the table, as the views read them                            *)
(***************************************************************************)
\* df[col]
Column(t, c) == [i \in DOMAIN t.rows |-> t.rows[i][c]]

\* Series.dropna()
DropNa(cells) == SelectSeq(cells, LAMBDA v : ~IsNull(v))

\* a dict or a list is unhashable
Hashable(v) == v.t \notin {"obj", "arr"}

\* Series.nunique(): the number of distinct non-null values; hashing an
\* unhashable value raises TypeError
NUnique(cells) ==
    IF \E i \in DOMAIN cells : ~IsNull(cells[i]) /\ ~Hashable(cells[i])
    THEN Raise("TypeError")
    ELSE Ok(Cardinality(SeqToSet(DropNa(cells))))

\* pandas.api.types.is_object_dtype(df[col]), df[col].dtype == 'object'
is_object_dtype(t, c) == t.dtype[c] = "object"

McqMin == 2
McqMax == 20

\* the column labels that are strings.  pd.DataFrame of a list of scalars
\* labels its column 0, and col.lower() raises AttributeError on it.
Named(cols) == SeqToSet(cols) \ {IntCol}

\* next((col for col in df.columns if ...), None), and the for/if/break
\* loops of Dashboard.py: the first column among those the condition holds
\* of (found).  The scan raises if it meets the label 0 before a match.
FirstWhere(cols, found) ==
    LET hits == {i \in DOMAIN cols : cols[i] \in found}
        ints == {i \in DOMAIN cols : cols[i] = IntCol}
    IN IF \E i \in ints : \A h \in hits : i < h THEN Raise("AttributeError")
       ELSE IF hits = {} THEN Ok(NoCol)
       ELSE Ok(cols[CHOOSE h \in hits : \A g \in hits : h <= g])

\* a for/if loop without break: the last column the condition holds of
LastWhere(cols, found) ==
    LET hits == {i \in DOMAIN cols : cols[i] \in found}
    IN IF \E i \in DOMAIN cols : cols[i] = IntCol THEN Raise("AttributeError")
       ELSE IF hits = {} THEN Ok(NoCol)
       ELSE Ok(cols[CHOOSE h \in hits : \A g \in hits : h >= g])

\* [col for col in df.columns if ...]
AllWhere(cols, found) ==
    IF \E i \in DOMAIN cols : cols[i] = IntCol THEN Raise("AttributeError")
    ELSE Ok(SelectSeq(cols, LAMBDA c : c \in found))

\* the strings pd.to_datetime parses as dates, among the model's strings
DateLikeStrings == {"2024-01-05", "2024-01-06"}

\* pd.to_datetime(..., errors='coerce') on one cell: a date string and a
\* number (an epoch offset) become datetimes, anything else NaT
ToDatetimeCell(v) ==
    CASE v.t = "str" -> IF v.s \in DateLikeStrings
                        THEN [t |-> "datetime", of |-> v] ELSE Null
      [] v.t = "num" -> [t |-> "datetime", of |-> v]
      [] v.t = "datetime" -> v
      [] OTHER -> Null

\* df[col] = pd.to_datetime(df[col], errors='coerce')
Coerce(t, c) ==
    [t EXCEPT !.rows = [i \in DOMAIN t.rows |->
                          [t.rows[i] EXCEPT ![c] = ToDatetimeCell(t.rows[i][c])]],
              !.dtype = [t.dtype EXCEPT ![c] = "datetime64"]]

\* whether pd.to_datetime may raise TypeError in spite of errors='coerce':
\* pandas versions differ on booleans, dicts and lists
ToDatetimeMayRaise(cells) ==
    \E i \in DOMAIN cells : cells[i].t \in {"bool", "obj", "arr"}

\* Series.mean() raises TypeError on an object column holding a value that
\* is not a number
MeanRaises(cells) ==
    \E i \in DOMAIN cells : cells[i].t \in {"str", "obj", "arr"}

\* str.strip() on the model's strings: only the blank ones change
Strip(s) == IF s \in {" ", "  "} THEN "" ELSE s

\* astype(str).str.strip().str.len() of one non-null cell; a value that is
\* not a string prints as a non-empty string
StrippedLen(v) == IF v.t = "str" THEN Len(Strip(v.s)) ELSE 1
\* astype(str).str.len() of one non-null cell
StrLen(v) == IF v.t = "str" THEN Len(v.s) ELSE 1

\* the strings in which WordCloud finds no word (no run of two or more word
\* characters), among the model's strings
NoWordStrings == {"N/A", "-", "", " "}

\* WordCloud().generate(text) over the joined cells (a set): it raises ValueError
\* ("We need at least 1 word") when no cell holds a word.  What the printed
\* form of a value that is not a string contributes depends on the
\* wordcloud version: either outcome.
WordCloudOutcomes(cells) ==
    IF \E v \in cells : v.t = "str" /\ v.s \notin NoWordStrings
    THEN {"ok"}
    ELSE IF \E v \in cells : v.t # "str"
    THEN {"ok", "ValueError"}
    ELSE {"ValueError"}

(***************************************************************************)
(* Column detection, one definition per place in the code                  *)
(***************************************************************************)
\* app.py line 88
app_time_col(t) == FirstWhere(t.columns, {c \in Named(t.columns) : IsTimeName(c)})

\* app.py lines 90-92
app_date_col(t) ==
    LET d == FirstWhere(t.columns, {c \in Named(t.columns) : IsDateName(c)})
    IN IF d.exc = "none" /\ d.val = NoCol
          /\ \E i \in DOMAIN t.columns : t.columns[i] = "submitted_at"
       THEN Ok("submitted_at") ELSE d

\* Dashboard.py lines 72-76
nb_time_col(t) == FirstWhere(t.columns, {c \in Named(t.columns) : IsTimeName(c)})

\* Dashboard.py lines 92-96
nb_date_col(t) == FirstWhere(t.columns, {c \in Named(t.columns) : IsDateName(c)})

\* Dashboard.py lines 183-189: no break, the last match stays
nb_trend_date_col(t) == LastWhere(t.columns, {c \in Named(t.columns) : IsDateName(c)})
nb_sentiment_col(t) == LastWhere(t.columns, {c \in Named(t.columns) : IsSentimentName(c)})

\* Dashboard.py lines 157-161
nb_text_col(t) == FirstWhere(t.columns, {c \in Named(t.columns) : IsTextName(c)})

\* app.py line 305
summary_text_col(t) == FirstWhere(t.columns, {c \in Named(t.columns) : IsTextName(c)})

\* app.py lines 167 and 227
app_text_cols(t) == AllWhere(t.columns, {c \in Named(t.columns) : IsTextName(c)})

\* the MCQ test on one column: object dtype and 2 <= nunique < 20
McqTest(t, c) ==
    is_object_dtype(t, c)
    /\ McqMin <= NUnique(Column(t, c)).val /\ NUnique(Column(t, c)).val < McqMax

\* whether evaluating the MCQ test on the column raises
McqRaises(t, c) == is_object_dtype(t, c) /\ NUnique(Column(t, c)).exc # "none"

\* app.py line 116: the comprehension raises where nunique raises
mcq_cols_analytics(t) ==
    IF \E i \in DOMAIN t.columns : McqRaises(t, t.columns[i])
    THEN Raise("TypeError")
    ELSE Ok(SelectSeq(t.columns, LAMBDA c : McqTest(t, c)))

\* app.py line 292
mcq_cols_summary(t) ==
    IF \E i \in DOMAIN t.columns : McqRaises(t, t.columns[i])
    THEN Raise("TypeError")
    ELSE Ok(SelectSeq(t.columns, LAMBDA c : McqTest(t, c)))

\* Dashboard.py lines 119-127: a column whose test raises is skipped
mcq_cols_notebook(t) ==
    SelectSeq(t.columns, LAMBDA c : ~McqRaises(t, c) /\ McqTest(t, c))

(***************************************************************************)
(* The views.  Each maps the state of the run to the states it can end in: *)
(* a call in a try block either succeeds or leaves its notice; a raise     *)
(* outside any try ends the run with exc set.  Plotting and fitting calls  *)
(* outside a try are taken to return.                                      *)
(***************************************************************************)
Cur ==
    [exc |-> exc, df |-> df, notices |-> notices, time_col |-> time_col,
     date_col |-> date_col, text_col |-> text_col, text_cols |-> text_cols,
     sentiment_col |-> sentiment_col, mcq_cols |-> mcq_cols, bound |-> bound]

Apply(o) ==
    /\ exc' = o.exc /\ df' = o.df /\ notices' = o.notices
    /\ time_col' = o.time_col /\ date_col' = o.date_col
    /\ text_col' = o.text_col /\ text_cols' = o.text_cols
    /\ sentiment_col' = o.sentiment_col /\ mcq_cols' = o.mcq_cols
    /\ bound' = o.bound

Notice(s, n) == [s EXCEPT !.notices = @ \cup {n}]
Raised(s, e) == [s EXCEPT !.exc = e]
Bind(s, names) == [s EXCEPT !.bound = @ \cup names]

\* some non-null cell of the column has a positive length (stripped or not)
HasStrippedText(cells) ==
    \E i \in DOMAIN cells : ~IsNull(cells[i]) /\ StrippedLen(cells[i]) > 0
HasText(cells) ==
    \E i \in DOMAIN cells : ~IsNull(cells[i]) /\ StrLen(cells[i]) > 0

TargetCol == "How would you rate the overall quality of the AI/ML session?"

\* app.py lines 81-105
show_overview(s) ==
    LET t == s.df
        tc == app_time_col(t)
        dc == app_date_col(t)
    IN IF tc.exc # "none" THEN {Raised(s, tc.exc)}
       ELSE IF dc.exc # "none"
       THEN {Raised(Bind([s EXCEPT !.time_col = tc.val], {"time_col"}), dc.exc)}
       ELSE LET s1 == Bind([s EXCEPT !.time_col = tc.val, !.date_col = dc.val],
                           {"time_col", "date_col"})
                s2 == IF tc.val = NoCol
                      THEN Notice(s1, "Average completion time: N/A") ELSE s1
            IN IF tc.val # NoCol /\ MeanRaises(Column(t, tc.val))
               THEN {Raised(s1, "TypeError")}
               ELSE IF dc.val = NoCol
               THEN {Notice(s2, "No date/timestamp column found.")}
               ELSE {[s2 EXCEPT !.df = Coerce(t, dc.val)]}
                    \cup (IF ToDatetimeMayRaise(Column(t, dc.val))
                          THEN {Raised(s2, "TypeError")} ELSE {})

\* show_mcq_analytics converting its first MCQ column in place
show_mcq_analytics_inplace(s) ==
    LET m == mcq_cols_analytics(s.df)
    IN IF m.exc # "none" THEN {Raised(s, m.exc)}
       ELSE IF m.val = <<>>
       THEN {Notice(Bind(s, {"mcq_cols"}), "No MCQ columns found.")}
       ELSE {[Bind(s, {"mcq_cols"}) EXCEPT !.mcq_cols = m.val,
                                          !.df = Coerce(s.df, m.val[1])]}

\* app.py lines 110-152
show_mcq_analytics(s) ==
    LET m == mcq_cols_analytics(s.df)
    IN IF m.exc # "none" THEN {Raised(s, m.exc)}
       ELSE IF m.val = <<>>
       THEN {Notice(Bind(s, {"mcq_cols"}), "No MCQ columns found.")}
       ELSE {[Bind(s, {"mcq_cols"}) EXCEPT !.mcq_cols = m.val, !.notices = h \cup c] :
               h \in {{}, {"Could not plot MCQ correlation heatmap"}},
               c \in {{}, {"Could not plot clusters"}}}

\* app.py lines 157-213
show_text_feedback(s) ==
    LET t == s.df
        a == app_text_cols(t)
    IN IF a.exc # "none" THEN {Raised(s, a.exc)}
       ELSE LET kept == SelectSeq(a.val, LAMBDA c : HasStrippedText(Column(t, c)))
                s1 == Bind([s EXCEPT !.text_cols = kept], {"text_cols"})
                cells == UNION {SeqToSet(Column(t, kept[i])) : i \in DOMAIN kept}
            IN IF kept = <<>>
               THEN {Notice(s1, "No text feedback found in any text columns.")}
               ELSE UNION {IF w # "ok" THEN {Raised(s1, w)}
                           ELSE {[s1 EXCEPT !.notices = x \cup y] :
                                   x \in {{}, {"Could not compute sentiment"}},
                                   y \in {{}, {"Could not perform topic modeling"}}} :
                           w \in WordCloudOutcomes(cells)}

\* app.py lines 218-271
show_predictive_modeling(s) ==
    LET t == s.df
        a == app_text_cols(t)
    IN IF a.exc # "none" THEN {Raised(s, a.exc)}
       ELSE LET s1 == Bind([s EXCEPT !.text_cols = a.val], {"text_cols"})
            IN IF TargetCol \notin SeqToSet(t.columns)
               THEN {Notice(s1, "No target column (overall quality) found.")}
               ELSE LET feats == SelectSeq(t.columns, LAMBDA c :
                                     /\ c # TargetCol
                                     /\ c \notin SeqToSet(a.val)
                                     /\ is_object_dtype(t, c))
                        y == Column(t, TargetCol)
                        classes == SeqToSet(y)
                        count(v) == Cardinality({i \in DOMAIN y : y[i] = v})
                    IN IF \E i \in DOMAIN feats :
                             \E v \in SeqToSet(Column(t, feats[i])) : ~Hashable(v)
                       THEN {Raised(s1, "TypeError")}
                       ELSE IF feats = <<>>
                       THEN {Notice(s1, "No categorical features for modeling.")}
                       ELSE IF Cardinality(classes) < 2
                       THEN {Notice(s1, "Not enough classes in target for modeling.")}
                       ELSE IF \E v \in classes : count(v) < 2
                       THEN {Notice(s1, "Each class in the target must have at least 2 samples")}
                       ELSE {s1, Notice(s1, "Could not split data for modeling")}

\* app.py lines 276-313
show_dashboard_summary(s) ==
    LET t == s.df
        m == mcq_cols_summary(t)
        x == summary_text_col(t)
    IN IF m.exc # "none" THEN {Raised(s, m.exc)}
       ELSE LET s1 == Bind([s EXCEPT !.mcq_cols = m.val], {"mcq_cols"})
            IN IF x.exc # "none" THEN {Raised(s1, x.exc)}
               ELSE LET s2 == Bind([s1 EXCEPT !.text_col = x.val], {"text_col"})
                    IN IF x.val # NoCol /\ HasText(Column(t, x.val))
                       THEN {IF w = "ok" THEN s2 ELSE Raised(s2, w) :
                               w \in WordCloudOutcomes(SeqToSet(DropNa(Column(t, x.val))))}
                       ELSE {s2}

\* Dashboard.py lines 66-110: summary statistics
nb_summary(s) ==
    LET t == s.df
        tc == nb_time_col(t)
        dc == nb_date_col(t)
        named == IF t.columns # <<>> THEN {"col"} ELSE {}
    IN IF tc.exc # "none" THEN {Raised(Bind(s, named), tc.exc)}
       ELSE LET s1 == Bind([s EXCEPT !.time_col = tc.val], named \cup {"time_col"})
                s2 == IF tc.val = NoCol
                      THEN Notice(s1, "No completion time column found.") ELSE s1
            IN IF dc.exc # "none" THEN {Raised(s2, dc.exc)}
               ELSE LET s3 == Bind([s2 EXCEPT !.date_col = dc.val], {"date_col"})
                    IN IF dc.val = NoCol
                       THEN {Notice(s3, "No date/timestamp column found.")}
                       ELSE {[s3 EXCEPT !.df = Coerce(t, dc.val)]}
                            \cup (IF ToDatetimeMayRaise(Column(t, dc.val))
                                  THEN {Raised(s3, "TypeError")} ELSE {})

\* Dashboard.py lines 118-154: MCQ bar charts and correlation heatmap
\* value_counts and corr on the columns chosen (their values hash) return,
\* so vc and corr are bound whenever there is an MCQ column; the calls that
\* can fail inside the two try blocks are the plotting ones after them.
nb_mcq(s) ==
    LET m == mcq_cols_notebook(s.df)
        s1 == Bind([s EXCEPT !.mcq_cols = m], {"mcq_cols"})
    IN IF m = <<>>
       THEN {Notice(s1, "No MCQ columns found for correlation heatmap.")}
       ELSE {[Bind(s1, {"vc", "corr"}) EXCEPT !.notices = @ \cup b \cup h] :
               b \in {{}, {"Skipping column due to error"}},
               h \in {{}, {"Could not plot MCQ correlation heatmap"}}}

\* Dashboard.py lines 157-180: word cloud
nb_text(s) ==
    LET t == s.df
        x == nb_text_col(t)
    IN IF x.exc # "none" THEN {Raised(s, x.exc)}
       ELSE LET s1 == Bind([s EXCEPT !.text_col = x.val], {"text_col"})
            IN IF x.val # NoCol /\ HasText(Column(t, x.val))
               THEN UNION {IF w = "ok"
                           THEN {Bind(s1, {"wordcloud"}),
                                 Notice(Bind(s1, {"wordcloud"}), "Could not generate WordCloud")}
                           ELSE {Notice(s1, "Could not generate WordCloud")} :
                           w \in WordCloudOutcomes(SeqToSet(DropNa(Column(t, x.val))))}
               ELSE {Notice(s1, "No text response column found or column is empty.")}

\* Dashboard.py lines 183-205: sentiment trend
nb_sentiment(s) ==
    LET t == s.df
        sc == nb_sentiment_col(t)
        dc == nb_trend_date_col(t)
    IN IF sc.exc # "none" THEN {Raised(s, sc.exc)}
       ELSE LET s1 == Bind([s EXCEPT !.sentiment_col = sc.val, !.date_col = dc.val],
                           {"sentiment_col", "date_col"})
            IN IF sc.val # NoCol /\ dc.val # NoCol
               THEN {Bind([s1 EXCEPT !.df = Coerce(t, dc.val)], {"df_sorted"}),
                     Notice(Bind([s1 EXCEPT !.df = Coerce(t, dc.val)], {"df_sorted"}),
                            "Could not plot sentiment trend")}
                    \cup (IF ToDatetimeMayRaise(Column(t, dc.val))
                          THEN {Notice(s1, "Could not plot sentiment trend")} ELSE {})
               ELSE {Notice(s1, "Sentiment or date column not found for trend plot.")}

\* Dashboard.py lines 213-240: the interactive dashboard
nb_dashboard(s, streamlit) ==
    IF ~streamlit
    THEN {Notice(s, "Streamlit not available.")}
    ELSE IF s.date_col # NoCol /\ s.df.dtype[s.date_col] # "datetime64"
    THEN {Raised(s, "AttributeError")}
    ELSE IF "vc" \notin s.bound \/ "corr" \notin s.bound
    THEN {Raised(s, "NameError")}
    ELSE IF s.text_col # NoCol /\ "wordcloud" \notin s.bound
    THEN {Raised(s, "NameError")}
    ELSE IF s.sentiment_col # NoCol /\ s.date_col # NoCol /\ "df_sorted" \notin s.bound
    THEN {Raised(s, "NameError")}
    ELSE {s}

(***************************************************************************)
(* The documents the views are run on: bare arrays of row objects, built   *)
(* column by column from a column name and the values its cells cycle      *)
(* through, and a few documents of the other shapes.                       *)
(***************************************************************************)
MaxRows == 25
SmallRows == 4

Absent == [t |-> "absent"]

Cycle(vals, n) == [i \in 1..n |-> vals[((i - 1) % Len(vals)) + 1]]

\* k distinct answer strings
Options(k) == [j \in 1..k |-> Str("opt" \o ToString(j))]

\* the array of n row objects with the columns cols (each <<name, values>>);
\* a row has no key where its cell is Absent
TableDoc(cols, n) ==
    Arr([i \in 1..n |->
           LET cells == [j \in DOMAIN cols |-> <<cols[j][1], Cycle(cols[j][2], n)[i]>>]
           IN Obj(SelectSeq(cells, LAMBDA p : p[2] # Absent))])

ViewNames ==
    {"Completion Time (seconds)", "completion_time", "Time to Complete",
     "Duration Timestamp", "Submitted At", "submitted_at", "Response Date",
     "Feedback Date", "Additional Comments", "Sentiment", "Comment Sentiment",
     "Did you like it?", TargetCol}

SmallProfiles ==
    { <<Str("Yes")>>,
      <<Str("Yes"), Str("No")>>,
      <<Str("Yes"), Str("No"), Str("Maybe")>>,
      <<Str("Yes"), Null, Str("No")>>,
      <<Absent, Str("Yes"), Str("No")>>,
      <<Null>>,
      <<Num(10), Num(20), Num(30)>>,
      <<Str("Yes"), Num(10)>>,
      <<Bool(TRUE), Null, Bool(FALSE)>>,
      <<Bool(TRUE), Bool(FALSE)>>,
      <<Str("2024-01-05"), Str("2024-01-06")>>,
      <<Str("Great session"), Str("N/A")>>,
      <<Str("N/A"), Str("-")>>,
      <<Str(""), Str(" ")>>,
      <<Obj(<< <<"q1", Str("Yes")>> >>)>>,
      <<Obj(<< <<"q1", Str("Yes")>> >>), Obj(<< <<"q1", Str("No")>> >>)>> }

BigProfiles ==
    {Options(k) : k \in {McqMax - 1, McqMax, MaxRows}}
    \cup {<<Null>> \o Options(McqMax - 1)}

PairNames ==
    {"Time to Complete", "Duration Timestamp", "submitted_at", "Response Date",
     "Feedback Date", "Additional Comments", "Sentiment", "Did you like it?",
     TargetCol}

PairProfiles ==
    { <<Str("Yes"), Str("No")>>,
      <<Num(10), Num(20), Num(30)>>,
      <<Str("2024-01-05"), Str("2024-01-06")>>,
      <<Str("Great session"), Str("N/A")>> }

\* the scenario of the specification: one response, one question
ScenarioDoc ==
    Obj(<< <<"responses", Arr(<< Obj(<< <<"response_id", Num(1)>>,
                                        <<"responses", Obj(<< <<"q1", Str("Yes")>> >>)>> >>) >>)>>,
           <<"questions", Arr(<< Question("q1", "Did you like it?") >>)>> >>)

UploadDocs ==
    {ScenarioDoc, TableDoc(<< <<"Did you like it?", <<Str("Yes"), Str("No")>> >> >>, SmallRows)}

ViewDocs ==
    {TableDoc(<< <<c, p>> >>, SmallRows) : c \in ViewNames, p \in SmallProfiles}
    \cup {TableDoc(<< <<"Did you like it?", p>> >>, MaxRows) : p \in BigProfiles}
    \cup {TableDoc(<<x[1], x[2]>>, SmallRows) :
            x \in {y \in (PairNames \X PairProfiles) \X (PairNames \X PairProfiles) :
                     y[1][1] # y[2][1]}}
    \cup UploadDocs
    \cup {Arr(<<>>), Obj(<<>>), Arr(<<Num(5), Num(6)>>),
          Obj(<< <<"data", Str("n/a")>> >>)}

(***************************************************************************)
(* The scripts' runs                                                       *)
(***************************************************************************)
Init ==
    /\ doc \in ViewDocs
    /\ prog \in {"app", "notebook"}
    /\ st \in BOOLEAN
    /\ (prog = "app" => st)
    /\ pc = "load"
    /\ menu = "Overview"
    /\ Blank

\* one view of app.py, run to its end
RunView(m, outcomes) ==
    /\ prog = "app" /\ pc = "view" /\ menu = m
    /\ \E o \in outcomes : Apply(o)
    /\ pc' = "done"
    /\ UNCHANGED <<doc, prog, st, menu, src>>

\* one cell of Dashboard.py; an exception ends the run
RunCell(at, next, outcomes) ==
    /\ prog = "notebook" /\ pc = at
    /\ \E o \in outcomes : Apply(o) /\ pc' = IF o.exc = "none" THEN next ELSE "done"
    /\ UNCHANGED <<doc, prog, st, menu, src>>

\* app.py lines 318-327
ShowOverview == RunView("Overview", show_overview(Cur))
ShowMcqAnalytics == RunView("MCQ Analytics", show_mcq_analytics(Cur))
ShowTextFeedback == RunView("Text Feedback (NLP)", show_text_feedback(Cur))
ShowPredictiveModeling == RunView("Predictive Modeling", show_predictive_modeling(Cur))
ShowDashboardSummary == RunView("Dashboard Summary", show_dashboard_summary(Cur))

NbSummary == RunCell("summary", "mcq", nb_summary(Cur))
NbMcq == RunCell("mcq", "text", nb_mcq(Cur))
NbText == RunCell("text", "sentiment", nb_text(Cur))
NbSentiment == RunCell("sentiment", "dashboard", nb_sentiment(Cur))
NbDashboard == RunCell("dashboard", "done", nb_dashboard(Cur, st))

\* a widget interaction reruns app.py from its first line
Rerun ==
    /\ prog = "app" /\ pc = "done"
    /\ pc' = "load"
    /\ src' = Null /\ df' = NoDF /\ exc' = "none" /\ notices' = {}
    /\ time_col' = NoCol /\ date_col' = NoCol /\ text_col' = NoCol
    /\ text_cols' = <<>> /\ sentiment_col' = NoCol /\ mcq_cols' = <<>>
    /\ bound' = {}
    /\ UNCHANGED <<prog, st>>

\* the user picks another entry of the sidebar radio
Navigate(m) == Rerun /\ m # menu /\ menu' = m /\ UNCHANGED doc

\* the user uploads another file
Upload(d) == Rerun /\ d # doc /\ doc' = d /\ UNCHANGED menu

Next ==
    \/ AppLoad
    \/ ShowOverview
    \/ ShowMcqAnalytics
    \/ ShowTextFeedback
    \/ ShowPredictiveModeling
    \/ ShowDashboardSummary
    \/ NbExtract
    \/ NbSummary
    \/ NbMcq
    \/ NbText
    \/ NbSentiment
    \/ NbDashboard
    \/ \E m \in Menus : Navigate(m)
    \/ \E d \in UploadDocs : Upload(d)

Spec == Init /\ [][Next]_vars

(***************************************************************************)
(* Claims about the normalizers, checked under SpecNorm                    *)
(***************************************************************************)
Loaded == pc # "load"

\* the column names `questions` gives question id qid: the text of every
\* entry carrying that id, or the id itself when no entry carries it
ClaimedNames(d, qid) ==
    LET qs == Item(d, "questions")
        hits == IF IsList(qs)
                THEN {j \in DOMAIN qs.a :
                        /\ IsDict(qs.a[j])
                        /\ HasKey(qs.a[j], "question_id")
                        /\ HasKey(qs.a[j], "question_text")
                        /\ Item(qs.a[j], "question_id") = Str(qid)}
                ELSE {}
    IN IF hits = {} THEN {qid} ELSE {Item(qs.a[j], "question_text").s : j \in hits}

HasAnswers(resp) ==
    IsDict(resp) /\ HasKey(resp, "responses") /\ IsDict(Item(resp, "responses"))

\* C1: for a document with `responses` (an array) and `questions`,
\* load_survey_data returns one record per entry of `responses`, in order,
\* and each record holds every answer of its entry under the text its
\* question id resolves to, or under the raw id.
C1_OneRecordPerResponse ==
    (prog = "app" /\ Loaded /\ IsShapeA(doc) /\ IsList(Item(doc, "responses"))) =>
        LET rs == Item(doc, "responses").a
        IN /\ exc = "none"
           /\ Len(df.rows) = Len(rs)
           /\ \A i \in DOMAIN rs : HasAnswers(rs[i]) =>
                \A p \in DOMAIN Item(rs[i], "responses").kv :
                    LET qid == Item(rs[i], "responses").kv[p][1]
                        answer == Item(rs[i], "responses").kv[p][2]
                    IN \E c \in ClaimedNames(doc, qid) :
                          c \in DOMAIN df.rows[i] /\ df.rows[i][c] = answer

\* C2: every record load_survey_data emits for a shape (a) document holds,
\* under each of the five metadata names, the value of that key in its
\* response entry, null when the entry lacks it.
C2_MetadataVerbatim ==
    (prog = "app" /\ Loaded /\ IsShapeA(doc) /\ exc = "none") =>
        \A i \in DOMAIN df.rows :
            \A m \in {"response_id", "user_id", "user_name", "submitted_at",
                      "completion_time"} :
                df.rows[i][m] = DictGet(Item(doc, "responses").a[i], m)

\* C3: record extraction raises no exception, whatever the document.
C3_NoException == Loaded => exc = "none"

\* C4: for an object document the record array is the value of the first
\* present key among responses, data, results, answers, and the object's
\* values in enumeration order when none of the four is present.
C4_FirstPresentKey ==
    (Loaded /\ IsDict(doc)) =>
        LET order == <<"responses", "data", "results", "answers">>
        IN /\ \A i \in 1..4 :
                (HasKey(doc, order[i]) /\ \A j \in 1..(i - 1) : ~HasKey(doc, order[j]))
                    => src = Item(doc, order[i])
           /\ (\A i \in 1..4 : ~HasKey(doc, order[i]))
                    => src = Arr([i \in DOMAIN doc.kv |-> doc.kv[i][2]])

C4_Witness ==
    /\ Loaded /\ IsDict(doc) /\ prog = "notebook"
    /\ ~HasKey(doc, "responses") /\ HasKey(doc, "data")
    /\ HasKey(doc, "results") /\ HasKey(doc, "answers")
    /\ Item(doc, "data") # Item(doc, "results")
    /\ doc.kv[1][1] # "data"
    /\ src = Item(doc, "data")

\* C5: for a bare array of response objects the table has one row per
\* entry, in the input order, each row holding its entry's fields (null
\* where the entry has none); equal entries stay separate rows.
C5_ListPassesThrough ==
    (Loaded /\ IsList(doc) /\ \A i \in DOMAIN doc.a : IsDict(doc.a[i])) =>
        /\ exc = "none"
        /\ Len(df.rows) = Len(doc.a)
        /\ \A i \in DOMAIN doc.a :
              /\ \A p \in DOMAIN doc.a[i].kv : doc.a[i].kv[p][1] \in DOMAIN df.rows[i]
              /\ \A c \in DOMAIN df.rows[i] : df.rows[i][c] = DictGet(doc.a[i], c)

C5_Witness ==
    /\ Loaded /\ IsList(doc) /\ prog = "app" /\ Len(doc.a) = 3
    /\ doc.a[1] = RecordA /\ doc.a[2] = RecordB /\ doc.a[3] = RecordA
    /\ Len(df.rows) = 3 /\ df.rows[1] = df.rows[3]
    /\ df.rows[2]["city"] = Str("Oslo") /\ df.rows[1]["city"] = Null

\* C6: an empty object, an empty array, a scalar or null gives a table of
\* zero rows, and no exception.
C6_EmptyInputs ==
    (Loaded /\ (doc \in {Obj(<<>>), Arr(<<>>)} \/ doc.t \in {"null", "num", "str", "bool"}))
        => (exc = "none" /\ df = EmptyDF)

C6_Witness ==
    /\ Loaded /\ prog = "notebook" /\ doc = Num(5)
    /\ exc = "none" /\ df.rows = <<>>

(***************************************************************************)
(* Claims about column detection and the views, checked under Spec         *)
(***************************************************************************)
Columns == SeqToSet(df.columns)

\* the name rule of the claim: the name "Completion Time (seconds)", and
\* every name holding "time" and also "complete" or "duration"
ClaimedDuration(c) ==
    \/ c = "Completion Time (seconds)"
    \/ /\ InLower("time", c)
       /\ InLower("complete", c) \/ InLower("duration", c)

\* C7: once a view has looked for the completion-time column, a table
\* with a column named "Completion Time (seconds)", or any column whose
\* lower-cased name contains "time" and "complete" or "duration", has one
\* of these columns selected as time_col.
C7_CompletionTimeIsDuration ==
    ("time_col" \in bound /\ \E c \in Columns : ClaimedDuration(c)) =>
        (time_col \in Columns /\ ClaimedDuration(time_col))

\* the column holds date-like strings (datetimes once a view has coerced it)
DateLike(c) ==
    /\ \E i \in DOMAIN df.rows : ~IsNull(df.rows[i][c])
    /\ \A i \in DOMAIN df.rows :
          \/ df.rows[i][c].t = "datetime"
          \/ df.rows[i][c].t = "str" /\ df.rows[i][c].s \in DateLikeStrings

\* C8: once a view has looked for the date column, a table whose only
\* column is named "Submitted At" and holds date-like strings has that
\* column selected as date_col, in app.py and in Dashboard.py.
C8_SubmittedAtIsTimestamp ==
    ("date_col" \in bound /\ Columns = {"Submitted At"} /\ DateLike("Submitted At"))
        => date_col = "Submitted At"

\* the place right after a consumer has evaluated the MCQ test on the table
McqEvaluated ==
    \/ prog = "app" /\ pc = "done" /\ df # NoDF
         /\ menu \in {"MCQ Analytics", "Dashboard Summary"}
    \/ prog = "notebook" /\ pc = "text"

DistinctNonNull(c) == {df.rows[i][c] : i \in {j \in DOMAIN df.rows : ~IsNull(df.rows[j][c])}}

AllStrings(c) == \A v \in DistinctNonNull(c) : v.t = "str"

InMcq(c) == \E i \in DOMAIN mcq_cols : mcq_cols[i] = c

\* C9: wherever a consumer has computed the MCQ columns, a column is among
\* them exactly when all its non-null values are strings and it has at
\* least 2 and fewer than 20 distinct non-null values.
C9_StringTypedMcq ==
    (McqEvaluated /\ "mcq_cols" \in bound) =>
        \A c \in Columns :
            InMcq(c) <=> /\ AllStrings(c)
                         /\ 2 <= Cardinality(DistinctNonNull(c))
                         /\ Cardinality(DistinctNonNull(c)) < 20

\* What the code does where C9 fails: the test is on the column's dtype,
\* object, and not on its values being strings.  A column is among the MCQ
\* columns exactly when its dtype is object, its values can be hashed and it
\* has at least 2 and fewer than 20 distinct non-null values; a string
\* column (not coerced to datetime) is object-typed, and so is a column
\* mixing strings with other values, or booleans with nulls.  Where a
\* column's values cannot be hashed the count raises: Dashboard.py leaves
\* the column out, app.py's views end with TypeError before they have any
\* MCQ columns.
McqIsObjectDtypeTest ==
    /\ (McqEvaluated /\ "mcq_cols" \in bound) =>
          (\A c \in Columns :
              (InMcq(c) <=> (/\ df.dtype[c] = "object"
                             /\ (\A v \in DistinctNonNull(c) : Hashable(v))
                             /\ McqMin <= Cardinality(DistinctNonNull(c))
                             /\ Cardinality(DistinctNonNull(c)) < McqMax)))
    /\ (McqEvaluated /\ "mcq_cols" \in bound) =>
          (\A c \in Columns :
              ((AllStrings(c) /\ df.dtype[c] # "datetime64") => df.dtype[c] = "object"))
    /\ (McqEvaluated /\ prog = "app"
          /\ (\E c \in Columns : \E v \in DistinctNonNull(c) : ~Hashable(v)))
            => (exc = "TypeError" /\ "mcq_cols" \notin bound)
    /\ (McqEvaluated /\ prog = "app" /\ "mcq_cols" \notin bound) => exc = "TypeError"

C9_MixedColumnSelected ==
    /\ McqEvaluated /\ prog = "app" /\ menu = "MCQ Analytics" /\ exc = "none"
    /\ mcq_cols = <<"Did you like it?">>
    /\ ~AllStrings("Did you like it?")
    /\ Cardinality(DistinctNonNull("Did you like it?")) = 2

\* C10: no exception escapes a view: every run that got past the
\* normalizer ends without one.
C10_NoExceptionEscapes == (pc = "done" /\ df # NoDF) => exc = "none"

\* the columns a view has selected under the role timestamp, text, sentiment
AsTimestamp == IF "date_col" \in bound THEN {date_col} \ {NoCol} ELSE {}
AsText ==
    (IF "text_col" \in bound THEN {text_col} \ {NoCol} ELSE {})
    \cup (IF "text_cols" \in bound THEN SeqToSet(text_cols) ELSE {})
AsSentiment == IF "sentiment_col" \in bound THEN {sentiment_col} \ {NoCol} ELSE {}

\* C11: name-based roles are first-match-wins in the order duration,
\* timestamp, text, sentiment: a column whose name matches the duration rule
\* is never selected as the date, a text or the sentiment column; one whose
\* name matches the timestamp rule is never selected as a text or the
\* sentiment column; one whose name matches the text rule is never selected
\* as the sentiment column.
C11_FirstMatchWins ==
    df # NoDF =>
        \A c \in Named(df.columns) :
            /\ IsTimeName(c) => c \notin AsTimestamp \cup AsText \cup AsSentiment
            /\ IsDateName(c) => c \notin AsText \cup AsSentiment
            /\ IsTextName(c) => c \notin AsSentiment

\* a step that runs a view of app.py or a cell of Dashboard.py
ViewStep ==
    \/ prog = "app" /\ pc = "view"
    \/ prog = "notebook" /\ pc \in {"summary", "mcq", "text", "sentiment", "dashboard"}

\* the views that look for a date column and use it
DateDependent ==
    \/ prog = "app" /\ menu = "Overview"
    \/ prog = "notebook" /\ pc \in {"summary", "sentiment"}

\* the step leaves the table as it was but for the column c, which becomes
\* a datetime column
OnlyCoerced(c) ==
    /\ c \in Columns
    /\ df'.columns = df.columns
    /\ DOMAIN df'.rows = DOMAIN df.rows
    /\ df'.dtype[c] = "datetime64"
    /\ \A i \in DOMAIN df'.rows : df'.rows[i][c].t \in {"datetime", "null"}
    /\ \A k \in Columns \ {c} :
          /\ df'.dtype[k] = df.dtype[k]
          /\ \A i \in DOMAIN df.rows : df'.rows[i][k] = df.rows[i][k]

\* C12: the load step leaves the decoded document unchanged, and a view
\* leaves the document and the table unchanged, except that a
\* date-dependent view may convert the column it selected as date_col to
\* datetime in place; the MCQ, text, predictive-modeling and summary views
\* and the dashboard section change nothing of the table.
C12_OnlyDateCoercion ==
    [][/\ pc = "load" => doc' = doc
       /\ ViewStep => /\ doc' = doc
                      /\ \/ df' = df
                         \/ DateDependent /\ OnlyCoerced(date_col')]_vars

\* a run of Dashboard.py to its end in which the date column was converted
\* and the MCQ column, used by the cells after it, is as it was loaded
C12_Witness ==
    /\ prog = "notebook" /\ pc = "done" /\ exc = "none"
    /\ df.columns = <<"Response Date", "Did you like it?">>
    /\ date_col = "Response Date" /\ df.dtype["Response Date"] = "datetime64"
    /\ df.rows[1]["Response Date"] = [t |-> "datetime", of |-> Str("2024-01-05")]
    /\ mcq_cols = <<"Did you like it?">>
    /\ df.dtype["Did you like it?"] = "object"
    /\ df.rows[1]["Did you like it?"] = Str("Yes") /\ df.rows[2]["Did you like it?"] = Str("No")

\* C13: the normalizer runs once per supplied document: a session that
\* holds a table and takes a step with no new document (a navigation)
\* still holds that table after it and is not back at the load step.
C13_NormalizeOncePerDocument ==
    [][(prog = "app" /\ pc = "done" /\ df # NoDF /\ doc' = doc)
          => (df' = df /\ pc' # "load")]_vars

\* what the run has got from its normalizer
Got == [exc |-> exc, src |-> src, val |-> df]

\* C14: the two copies of the normalizer agree.  On every document
\* extract_records and the fallback of load_survey_data take the records
\* from the same array; on every document that does not hold both
\* "responses" and "questions" the two functions end the same way, with the
\* same table or the same exception, and what either script has after its
\* load step is what the other function returns.
C14_CopiesAgree ==
    Loaded =>
        /\ app_fallback_records(doc) = nb_records(doc)
        /\ ~IsShapeA(doc) =>
              /\ load_survey_data(doc) = extract_records(doc)
              /\ prog = "app" => Got = extract_records(doc)
              /\ prog = "notebook" => Got = load_survey_data(doc)

\* app.py has loaded an object without a container key, and so without
\* the keys of shape (a): the table has one row, the value of "meta"
C14_Witness ==
    /\ Loaded /\ prog = "app" /\ exc = "none"
    /\ doc = Obj(<< <<"meta", RecordB>> >>)
    /\ src = Arr(<<RecordB>>)
    /\ Len(df.rows) = 1
    /\ Got = extract_records(doc)

=============================================================================
